---------------------------- MODULE Spec2Model ----------------------------
(***************************************************************************)
(* Model of the libxdo wrapper (src/lib.rs): the instance handle Xdo, the  *)
(* borrowed Window, the modifier snapshot CharcodeMapList and the Error    *)
(* taxonomy, run against a nondeterministic native layer that records      *)
(* every native call the wrapper makes.                                    *)
(*                                                                         *)
(* Pointers are pairs <<region, index>>.  Unsigned machine integers wider  *)
(* than the checker's integers are little-endian sequences of base-256     *)
(* limbs: a u32 is 4 limbs, a u64 is 8 limbs.                              *)
(***************************************************************************)
EXTENDS Integers, Sequences, FiniteSets

\* ------------------------------------------------------------------ bounds

\* Slots the client has for modifier snapshots it keeps.
MaxSnaps == 1
\* Addresses the C allocator can hand out for modifier arrays.
MaxPtrs == 1
\* Addresses the X allocator can hand out for window-name buffers.
MaxXBufs == 1
\* Largest record count the native layer reports for a modifier array.
MaxLen == 1

\* --------------------------------------------------------------- constants

XDO_SUCCESS == 0
XDO_ERROR == 1

NULL == <<"null", 0>>
Ptrs == {<<"heap", i>> : i \in 1..MaxPtrs}
XPtrs == {<<"xlib", i>> : i \in 1..MaxXBufs}
XdoPtrs == {<<"xdo", 1>>}

\* What a native status function can return: the two documented sentinels
\* and one value outside the contract.
NativeRets == {XDO_SUCCESS, XDO_ERROR, 2}

WindowIds == {0, 69206023}

\* ---------------------------------------------------------- limb arithmetic

RECURSIVE MulSmall(_, _, _)
\* a * m + c for a limb sequence a and a small scalar m; the result has one
\* more entry than a, the last being the carry out (not reduced).
MulSmall(a, m, c) ==
    IF a = <<>> THEN <<c>>
    ELSE LET t == Head(a) * m + c
         IN  <<t % 256>> \o MulSmall(Tail(a), m, t \div 256)

RECURSIVE AddLimbs(_, _, _)
\* a + b + c for limb sequences of equal length; last entry is the carry out.
AddLimbs(a, b, c) ==
    IF a = <<>> THEN <<c>>
    ELSE LET t == Head(a) + Head(b) + c
         IN  <<t % 256>> \o AddLimbs(Tail(a), Tail(b), t \div 256)

\* The k low limbs of a small natural n.
ToLimbs(n, k) == [i \in 1..k |-> (n \div (256 ^ (i - 1))) % 256]

\* `x as u32` of a u64: the low four limbs.
AsU32(x) == SubSeq(x, 1, 4)


\* ------------------------------------------------------------ native events

\* One event of the native layer: the function, the arguments passed in, the
\* values written through output parameters, and the value returned.
Ev(fn, args, out, ret) == [fn |-> fn, args |-> args, out |-> out, ret |-> ret]

\* The events of evs that are calls of fn, in order.
Calls(evs, fn) == SelectSeq(evs, LAMBDA e : e.fn = fn)

\* The pointers passed as first argument to fn in evs.
Released(evs, fn) == {evs[i].args[1] : i \in {j \in 1..Len(evs) : evs[j].fn = fn}}

\* ----------------------------------------------------------- Result, Error

Ok(v) == [tag |-> "Ok", val |-> v]
Err(e) == [tag |-> "Err", val |-> e]
Panic(msg) == [tag |-> "Panic", val |-> msg]

Some(v) == [some |-> TRUE, val |-> v]
None == [some |-> FALSE, val |-> <<>>]

Failed(label) == [kind |-> "Failed", val |-> label]
Utf8(e) == [kind |-> "Utf8", val |-> e]
NullByteInString(e) == [kind |-> "NullByteInString", val |-> e]

\* Faulty variant of cause: the NUL error is not chained.
cause_without_nul(self) ==
    CASE self.kind = "Utf8" -> Some(self.val)
      [] OTHER -> None

\* Error::cause
cause(self) ==
    CASE self.kind = "Utf8" -> Some(self.val)
      [] self.kind = "NullByteInString" -> Some(self.val)
      [] OTHER -> None

\* impl From<Utf8Error> for Error
FromUtf8Error(val) == Utf8(val)

\* impl From<NulError> for Error
FromNulError(val) == NullByteInString(val)

\* ptr_or_error
ptr_or_error(ptr, method) ==
    IF ptr = NULL THEN Err(Failed(method)) ELSE Ok(ptr)

\* ------------------------------------------------------- string conversion

\* Position (1-based) of the first NUL byte of b, 0 when there is none.
FirstNul(b) ==
    IF \E i \in 1..Len(b) : b[i] = 0
    THEN CHOOSE i \in 1..Len(b) : b[i] = 0 /\ \A j \in 1..(i - 1) : b[j] # 0
    ELSE 0

\* CStr::from_ptr(name).to_bytes(): the bytes of the buffer before its
\* NUL terminator.
CStrBytes(buf) == SubSeq(buf, 1, FirstNul(buf) - 1)

IsCont(x) == x >= 128 /\ x <= 191

\* Encoded length announced by a lead byte, 0 for a byte that cannot lead.
Utf8CharWidth(x) ==
    CASE x < 128 -> 1
      [] x >= 194 /\ x <= 223 -> 2
      [] x >= 224 /\ x <= 239 -> 3
      [] x >= 240 /\ x <= 244 -> 4
      [] OTHER -> 0

\* Second byte allowed after lead byte x of a three-byte sequence.
Second3(x, y) ==
    \/ x = 224 /\ y >= 160 /\ y <= 191
    \/ x >= 225 /\ x <= 236 /\ IsCont(y)
    \/ x = 237 /\ y >= 128 /\ y <= 159
    \/ x >= 238 /\ x <= 239 /\ IsCont(y)

\* Second byte allowed after lead byte x of a four-byte sequence.
Second4(x, y) ==
    \/ x = 240 /\ y >= 144 /\ y <= 191
    \/ x >= 241 /\ x <= 243 /\ IsCont(y)
    \/ x = 244 /\ y >= 128 /\ y <= 143

RECURSIVE Utf8Validate(_, _)
\* Validation of v from position i on: Ok(v), or Err of a Utf8Error with the
\* length of the valid prefix and the length of the bad sequence (0 when the
\* input ends inside a sequence).
Utf8Validate(v, i) ==
    IF i > Len(v) THEN Ok(v)
    ELSE LET first == v[i]
             w == Utf8CharWidth(first)
             bad(n) == Err([valid_up_to |-> i - 1, error_len |-> n])
             at(k) == IF i + k > Len(v) THEN -1 ELSE v[i + k]
         IN  CASE w = 1 -> Utf8Validate(v, i + 1)
               [] w = 2 ->
                    IF at(1) = -1 THEN bad(0)
                    ELSE IF ~IsCont(at(1)) THEN bad(1)
                    ELSE Utf8Validate(v, i + 2)
               [] w = 3 ->
                    IF at(1) = -1 THEN bad(0)
                    ELSE IF ~Second3(first, at(1)) THEN bad(1)
                    ELSE IF at(2) = -1 THEN bad(0)
                    ELSE IF ~IsCont(at(2)) THEN bad(2)
                    ELSE Utf8Validate(v, i + 3)
               [] w = 4 ->
                    IF at(1) = -1 THEN bad(0)
                    ELSE IF ~Second4(first, at(1)) THEN bad(1)
                    ELSE IF at(2) = -1 THEN bad(0)
                    ELSE IF ~IsCont(at(2)) THEN bad(2)
                    ELSE IF at(3) = -1 THEN bad(0)
                    ELSE IF ~IsCont(at(3)) THEN bad(3)
                    ELSE Utf8Validate(v, i + 4)
               [] OTHER -> bad(1)

\* cstr.to_str(): the bytes as a string when they are valid UTF-8.
to_str(bytes) == Utf8Validate(bytes, 1)

\* CString::new(sequence): a NUL-terminated copy, or a NulError holding the
\* position of the first NUL (0-based) and the bytes.
CString_new(bytes) ==
    IF FirstNul(bytes) # 0
    THEN Err([nul_position |-> FirstNul(bytes) - 1, bytes |-> bytes])
    ELSE Ok(Append(bytes, 0))

\* ------------------------------------------------------------------ inputs

\* Buffers the native layer returns for a window name (NUL-terminated).
NameBuffers ==
    { <<120, 116, 101, 114, 109, 0>>,
      <<195, 169, 0>>,
      <<255, 254, 0>>,
      <<195, 0>>,
      <<97, 237, 160, 128, 0>> }

\* Key sequences the caller passes: "Return", "Ret\0urn".
KeySequences ==
    { <<82, 101, 116, 117, 114, 110>>,
      <<82, 101, 116, 0, 117, 114, 110>> }

\* A Duration of secs whole seconds (u64, as high and low u32 halves) and
\* nanos subsecond nanoseconds.
Duration(hi, lo, nanos) ==
    [secs |-> ToLimbs(lo, 4) \o ToLimbs(hi, 4), nanos |-> nanos]

\* Option<Duration>: absent; 2 s 500 us; 4294 s 999_999_999 ns (the sum
\* passes 2^32 - 1); 4295 s (the product passes it); 2^32 + 2 s 500 us
\* (the seconds pass it).
Delays ==
    { None,
      Some(Duration(0, 2, 500000)),
      Some(Duration(0, 4294, 999999999)),
      Some(Duration(0, 4295, 0)),
      Some(Duration(1, 2, 500000)) }

\* ------------------------------------------------------------------- state

VARIABLES
    build,      \* how the crate was compiled: overflow checks, panic strategy
    pc,         \* "running", or "panicked" once an operation has panicked
    xdo,        \* the client's instance handle: state and native pointer
    xdoFrees,   \* calls of xdo_free made so far on the handle's pointer
    window,     \* the client's Window: whether it holds one, and its id
    mods,       \* the client's snapshot slots: state, ptr, len, frees so far
    heap,       \* modifier arrays the C allocator has live
    xbufs,      \* window-name buffers the X allocator has live
    op,         \* the most recent operation and its arguments
    events,     \* the native events of the most recent operation, in order
    result      \* what the most recent operation returned

vars == <<build, pc, xdo, xdoFrees, window, mods, heap, xbufs, op, events, result>>

Slots == 1..MaxSnaps

NoSnap == [state |-> "none", ptr |-> NULL, len |-> 0, frees |-> 0]

\* ----------------------------------------------------------- the wrapper

\* Faulty variant of the handle's drop: the native destructor is not called.
Xdo_drop_leak(ptr) == <<>>

\* foreign_type! { fn drop = ffi::xdo_free; }: releasing the owned handle.
Xdo_drop(ptr) == <<Ev("xdo_free", <<ptr>>, <<>>, 0)>>

\* Faulty variant of the snapshot's drop: no null check before free.
CharcodeMapList_drop_unchecked(self) == <<Ev("free", <<self.ptr>>, <<>>, 0)>>

\* impl Drop for CharcodeMapList
CharcodeMapList_drop(self) ==
    IF self.ptr # NULL
    THEN <<Ev("free", <<self.ptr>>, <<>>, 0)>>
    ELSE <<>>

\* Xdo::new; nat is the pointer the native constructor returns.
Xdo_new(nat) ==
    [events |-> <<Ev("xdo_new", <<NULL>>, <<>>, nat)>>,
     result |-> ptr_or_error(nat, "xdo_new")]

\* XdoRef::get_active_window; nat is what the native call returns and writes.
get_active_window(self, nat) ==
    LET ptr == nat.id
        res == nat.ret
        call == Ev("xdo_get_active_window", <<self>>, <<ptr>>, res)
    IN  [events |-> <<call>>,
         result |->
            CASE res = XDO_SUCCESS -> Ok([id |-> ptr, xdo |-> self])
              [] res = XDO_ERROR -> Err(Failed("get_active_window"))
              [] OTHER -> Panic("unreachable")]

\* Faulty variant of get_active_modifiers: the failure path forgets the list
\* instead of dropping it.
get_active_modifiers_forget(self, nat, unwind) ==
    LET call == Ev("xdo_get_active_modifiers", <<self>>, <<nat.ptr, nat.len>>, nat.ret)
    IN  [events |-> <<call>>,
         result |->
            CASE nat.ret = XDO_SUCCESS -> Ok([ptr |-> nat.ptr, len |-> nat.len])
              [] nat.ret = XDO_ERROR -> Err(Failed("get_active_modifiers"))
              [] OTHER -> Panic("unreachable")]

\* XdoRef::get_active_modifiers; the local list is dropped on every exit that
\* does not move it out (an unwinding panic included).
get_active_modifiers(self, nat, unwind) ==
    LET list == [ptr |-> nat.ptr, len |-> nat.len]
        res == nat.ret
        call == Ev("xdo_get_active_modifiers", <<self>>, <<list.ptr, list.len>>, res)
    IN  CASE res = XDO_SUCCESS ->
               [events |-> <<call>>, result |-> Ok(list)]
          [] res = XDO_ERROR ->
               [events |-> <<call>> \o CharcodeMapList_drop(list),
                result |-> Err(Failed("get_active_modifiers"))]
          [] OTHER ->
               [events |-> <<call>> \o (IF unwind THEN CharcodeMapList_drop(list) ELSE <<>>),
                result |-> Panic("unreachable")]

\* Window::get_name; the `?` on to_str returns from the function at once.
get_name(self, nat) ==
    LET name == nat.name
        res == nat.ret
        call == Ev("xdo_get_window_name", <<self.xdo, self.id>>, <<name, nat.bytes>>, res)
        read == Ev("CStr::from_ptr", <<name>>, <<>>, 0)
        decoded == to_str(CStrBytes(nat.bytes))
    IN  CASE res = XDO_SUCCESS ->
               IF decoded.tag = "Err"
               THEN [events |-> <<call, read>>,
                     result |-> Err(FromUtf8Error(decoded.val))]
               ELSE [events |-> <<call, read, Ev("XFree", <<name>>, <<>>, 0)>>,
                     result |-> Ok(decoded.val)]
          [] res = XDO_ERROR ->
               [events |-> <<call>>, result |-> Err(Failed("get_window_name"))]
          [] OTHER ->
               [events |-> <<call>>, result |-> Panic("unreachable")]

\* The delay closure of send_keysequence, in useconds_t (u32) arithmetic:
\* secs as u32 * 1_000_000 + subsec_nanos / 1_000.  An overflowing product or
\* sum panics in a build with overflow checks and wraps in one without.
udelay_of(delay, overflow_checks) ==
    IF ~delay.some THEN [panic |-> FALSE, val |-> ToLimbs(0, 4)]
    ELSE LET prod == MulSmall(AsU32(delay.val.secs), 1000000, 0)
             sum == AddLimbs(SubSeq(prod, 1, 4),
                             ToLimbs(delay.val.nanos \div 1000, 4), 0)
         IN  [panic |-> overflow_checks /\ (prod[5] # 0 \/ sum[5] # 0),
              val |-> SubSeq(sum, 1, 4)]

\* Window::send_keysequence; nat is what the native call returns if made.
send_keysequence(self, sequence, delay, nat, overflow_checks) ==
    LET udelay == udelay_of(delay, overflow_checks)
        cstring == CString_new(sequence)
        res == nat
        call == Ev("xdo_send_keysequence_window",
                   <<self.xdo, self.id, cstring.val, udelay.val>>, <<>>, res)
    IN  IF udelay.panic
        THEN [events |-> <<>>, result |-> Panic("arithmetic overflow")]
        ELSE IF cstring.tag = "Err"
        THEN [events |-> <<>>, result |-> Err(FromNulError(cstring.val))]
        ELSE [events |-> <<call>>,
              result |->
                 CASE res = XDO_SUCCESS -> Ok(<<>>)
                   [] res = XDO_ERROR -> Err(Failed("send_keysequence"))
                   [] OTHER -> Panic("unreachable")]

\* Faulty variant of set_active_modifiers: the label of its sibling.
set_active_modifiers_mislabelled(self, modlist, nat) ==
    [events |-> <<Ev("xdo_set_active_modifiers",
                     <<self.xdo, self.id, modlist.ptr, modlist.len>>, <<>>, nat)>>,
     result |->
        CASE nat = XDO_SUCCESS -> Ok(<<>>)
          [] nat = XDO_ERROR -> Err(Failed("clear_active_modifiers"))
          [] OTHER -> Panic("unreachable")]

\* Window::set_active_modifiers
set_active_modifiers(self, modlist, nat) ==
    LET res == nat
        call == Ev("xdo_set_active_modifiers",
                   <<self.xdo, self.id, modlist.ptr, modlist.len>>, <<>>, res)
    IN  [events |-> <<call>>,
         result |->
            CASE res = XDO_SUCCESS -> Ok(<<>>)
              [] res = XDO_ERROR -> Err(Failed("set_active_modifiers"))
              [] OTHER -> Panic("unreachable")]

\* Faulty variant of clear_active_modifiers: the length is not forwarded.
clear_active_modifiers_no_len(self, modlist, nat) ==
    [events |-> <<Ev("xdo_clear_active_modifiers",
                     <<self.xdo, self.id, modlist.ptr, 0>>, <<>>, nat)>>,
     result |->
        CASE nat = XDO_SUCCESS -> Ok(<<>>)
          [] nat = XDO_ERROR -> Err(Failed("clear_active_modifiers"))
          [] OTHER -> Panic("unreachable")]

\* Window::clear_active_modifiers
clear_active_modifiers(self, modlist, nat) ==
    LET res == nat
        call == Ev("xdo_clear_active_modifiers",
                   <<self.xdo, self.id, modlist.ptr, modlist.len>>, <<>>, res)
    IN  [events |-> <<call>>,
         result |->
            CASE res = XDO_SUCCESS -> Ok(<<>>)
              [] res = XDO_ERROR -> Err(Failed("clear_active_modifiers"))
              [] OTHER -> Panic("unreachable")]

\* ----------------------------------------------------------------- actions

\* What an allocator with the addresses of pool can return when live are in
\* use: null, or the lowest free address.
Fresh(pool, live) ==
    {NULL} \cup {p \in pool \ live : \A q \in pool \ live : p[2] <= q[2]}

Init ==
    /\ build \in [overflow_checks : BOOLEAN, unwind : BOOLEAN]
    /\ pc = "running"
    /\ xdo = [state |-> "none", ptr |-> NULL]
    /\ xdoFrees = 0
    /\ window = [valid |-> FALSE, id |-> 0]
    /\ mods = [i \in Slots |-> NoSnap]
    /\ heap = {}
    /\ xbufs = {}
    /\ op = [name |-> "none", args |-> <<>>]
    /\ events = <<>>
    /\ result = Ok(<<>>)

\* What every operation leaves behind: its record, its events, its result,
\* and a panicked process when it panicked.
Finish(name, args, out) ==
    /\ op' = [name |-> name, args |-> args]
    /\ events' = out.events
    /\ result' = out.result
    /\ pc' = IF out.result.tag = "Panic" THEN "panicked" ELSE pc

\* Owned values are dropped by the running client, and by an unwinding panic.
CanDrop == pc = "running" \/ (pc = "panicked" /\ build.unwind)

\* The Window the client holds, as the wrapper sees it.
TheWindow == [id |-> window.id, xdo |-> xdo.ptr]

\* let xdo = Xdo::new()
NewXdo ==
    /\ pc = "running"
    /\ xdo.state = "none"
    /\ \E nat \in XdoPtrs \cup {NULL} :
         LET out == Xdo_new(nat)
         IN  /\ Finish("Xdo::new", <<>>, out)
             /\ xdo' = IF out.result.tag = "Ok"
                       THEN [state |-> "live", ptr |-> out.result.val]
                       ELSE xdo
    /\ UNCHANGED <<build, xdoFrees, window, mods, heap, xbufs>>

\* The handle goes out of scope; the Window borrowing it ended before.
DropXdo ==
    /\ CanDrop
    /\ xdo.state = "live"
    /\ LET evs == Xdo_drop(xdo.ptr)
       IN  /\ op' = [name |-> "drop(Xdo)", args |-> <<xdo.ptr>>]
           /\ events' = evs
           /\ xdoFrees' = xdoFrees + Len(Calls(evs, "xdo_free"))
    /\ xdo' = [xdo EXCEPT !.state = "dropped"]
    /\ window' = [window EXCEPT !.valid = FALSE]
    /\ UNCHANGED <<build, pc, mods, heap, xbufs, result>>

\* let window = xdo.get_active_window()
GetActiveWindow ==
    /\ pc = "running"
    /\ xdo.state = "live"
    /\ \E ret \in NativeRets, id \in WindowIds :
         LET out == get_active_window(xdo.ptr, [ret |-> ret, id |-> id])
         IN  /\ Finish("get_active_window", <<>>, out)
             /\ window' = IF out.result.tag = "Ok"
                          THEN [valid |-> TRUE, id |-> out.result.val.id]
                          ELSE window
    /\ UNCHANGED <<build, xdo, xdoFrees, mods, heap, xbufs>>

\* let mods = xdo.get_active_modifiers(); the native layer allocates the
\* array it returns (a null array has length zero).
GetActiveModifiers ==
    /\ pc = "running"
    /\ xdo.state = "live"
    /\ \E s \in Slots : mods[s].state = "none"
    /\ \E ret \in NativeRets, p \in Fresh(Ptrs, heap), n \in 0..MaxLen :
         /\ p = NULL => n = 0
         /\ LET out == get_active_modifiers(xdo.ptr,
                          [ret |-> ret, ptr |-> p, len |-> n], build.unwind)
                s == CHOOSE t \in Slots :
                        mods[t].state = "none" /\ \A u \in 1..(t - 1) : mods[u].state # "none"
            IN  /\ Finish("get_active_modifiers", <<>>, out)
                /\ mods' = IF out.result.tag = "Ok"
                           THEN [mods EXCEPT ![s] =
                                   [state |-> "live", ptr |-> out.result.val.ptr,
                                    len |-> out.result.val.len, frees |-> 0]]
                           ELSE mods
                /\ heap' = (heap \cup ({p} \ {NULL})) \ Released(out.events, "free")
    /\ UNCHANGED <<build, xdo, xdoFrees, window, xbufs>>

\* A snapshot goes out of scope.
DropMods ==
    /\ CanDrop
    /\ \E s \in Slots :
         /\ mods[s].state = "live"
         /\ LET evs == CharcodeMapList_drop(mods[s])
            IN  /\ op' = [name |-> "drop(CharcodeMapList)", args |-> <<s>>]
                /\ events' = evs
                /\ mods' = [mods EXCEPT ![s].state = "dropped",
                                        ![s].frees = @ + Len(Calls(evs, "free"))]
                /\ heap' = heap \ Released(evs, "free")
    /\ UNCHANGED <<build, pc, xdo, xdoFrees, window, xbufs, result>>

\* window.get_name(); on success the native layer returns a fresh
\* NUL-terminated buffer, otherwise it leaves the output pointer null.
GetName ==
    /\ pc = "running"
    /\ window.valid
    /\ \E ret \in NativeRets, b \in NameBuffers, p \in Fresh(XPtrs, xbufs) :
         /\ ret = XDO_SUCCESS <=> p # NULL
         /\ LET out == get_name(TheWindow, [ret |-> ret, name |-> p, bytes |-> b])
            IN  /\ Finish("get_name", <<>>, out)
                /\ xbufs' = (xbufs \cup ({p} \ {NULL})) \ Released(out.events, "XFree")
    /\ UNCHANGED <<build, xdo, xdoFrees, window, mods, heap>>

\* window.send_keysequence(sequence, delay)
SendKeysequence ==
    /\ pc = "running"
    /\ window.valid
    /\ \E sequence \in KeySequences, delay \in Delays, ret \in NativeRets :
         Finish("send_keysequence", <<sequence, delay>>,
                send_keysequence(TheWindow, sequence, delay, ret, build.overflow_checks))
    /\ UNCHANGED <<build, xdo, xdoFrees, window, mods, heap, xbufs>>

\* window.set_active_modifiers(&mods)
SetActiveModifiers ==
    /\ pc = "running"
    /\ window.valid
    /\ \E s \in Slots, ret \in NativeRets :
         /\ mods[s].state = "live"
         /\ Finish("set_active_modifiers", <<s>>,
                   set_active_modifiers(TheWindow, mods[s], ret))
    /\ UNCHANGED <<build, xdo, xdoFrees, window, mods, heap, xbufs>>

\* window.clear_active_modifiers(&mods)
ClearActiveModifiers ==
    /\ pc = "running"
    /\ window.valid
    /\ \E s \in Slots, ret \in NativeRets :
         /\ mods[s].state = "live"
         /\ Finish("clear_active_modifiers", <<s>>,
                   clear_active_modifiers(TheWindow, mods[s], ret))
    /\ UNCHANGED <<build, xdo, xdoFrees, window, mods, heap, xbufs>>

Next ==
    \/ NewXdo
    \/ DropXdo
    \/ GetActiveWindow
    \/ GetActiveModifiers
    \/ DropMods
    \/ GetName
    \/ SendKeysequence
    \/ SetActiveModifiers
    \/ ClearActiveModifiers

Spec == Init /\ [][Next]_vars

\* ------------------------------------------------------------------ claims

IsFailed(r, label) ==
    r.tag = "Err" /\ r.val.kind = "Failed" /\ r.val.val = label

IsErrKind(r, kind) == r.tag = "Err" /\ r.val.kind = kind

\* The most recent operation made the native call fn first.
Called(fn) == Len(events) >= 1 /\ events[1].fn = fn

\* C1: every get_name whose native call returns the success sentinel calls
\* XFree exactly once, on the returned name buffer, before it returns,
\* whether decoding succeeded or failed.
C1_NameBufferFreedOnce ==
    (op.name = "get_name" /\ events[1].ret = XDO_SUCCESS)
        => /\ Len(Calls(events, "XFree")) = 1
           /\ Calls(events, "XFree")[1].args[1] = events[1].out[1]

\* C9: in get_name the events are native call, read of the buffer, XFree,
\* return: no read follows the free, neither a decoded name nor a Utf8 error
\* is returned before the free, and on the failure sentinel the buffer is
\* neither read nor freed and the result is Failed("get_window_name").
C9_NameDecodeThenFreeThenReturn ==
    op.name = "get_name" =>
        /\ events[1].fn = "xdo_get_window_name"
        /\ \A i, j \in 1..Len(events) :
             (events[i].fn = "XFree" /\ events[j].fn = "CStr::from_ptr") => j < i
        /\ (result.tag = "Ok" \/ IsErrKind(result, "Utf8")) =>
             /\ Len(events) = 3
             /\ events[2].fn = "CStr::from_ptr"
             /\ events[3].fn = "XFree"
        /\ events[1].ret = XDO_ERROR =>
             /\ Len(events) = 1
             /\ IsFailed(result, "get_window_name")

\* C2: a key sequence with an embedded NUL makes send_keysequence return
\* NullByteInString without any native call, whatever the delay; a NUL-free
\* one makes exactly one native call, with a NUL-terminated copy of it.
C2_NulNeverReachesNative ==
    op.name = "send_keysequence" =>
        LET sequence == op.args[1]
        IN  IF \E i \in 1..Len(sequence) : sequence[i] = 0
            THEN /\ IsErrKind(result, "NullByteInString")
                 /\ events = <<>>
            ELSE /\ Len(events) = 1
                 /\ events[1].fn = "xdo_send_keysequence_window"
                 /\ events[1].args[3] = sequence \o <<0>>

\* d * 1_000_000 + n / 1_000 over the naturals, reduced modulo 2^32.
ExactMicros(delay) ==
    IF ~delay.some THEN ToLimbs(0, 4)
    ELSE LET prod == MulSmall(delay.val.secs, 1000000, 0)
             sum == AddLimbs(SubSeq(prod, 1, 8),
                             ToLimbs(delay.val.nanos \div 1000, 4) \o ToLimbs(0, 4), 0)
         IN  SubSeq(sum, 1, 4)

\* C3: for a NUL-free sequence, send_keysequence forwards to the native send
\* function d * 1_000_000 + n / 1_000 truncated modulo 2^32 for a delay of
\* d seconds and n nanoseconds, and 0 for an absent delay, without aborting.
C3_DelayForwardedTruncated ==
    (op.name = "send_keysequence" /\ \A i \in 1..Len(op.args[1]) : op.args[1][i] # 0)
        => /\ Called("xdo_send_keysequence_window")
           /\ events[1].args[4] = ExactMicros(op.args[2])

\* C4: Xdo::new calls the native constructor once with a null display name;
\* a non-null return is owned by the handle, and releasing the handle calls
\* xdo_free exactly once, on that pointer, whatever borrowed operations ran
\* before; a null return yields Failed("xdo_new") and xdo_free is never called.
C4_HandleFreedExactlyOnce ==
    /\ op.name = "Xdo::new" =>
         /\ Len(events) = 1
         /\ events[1].fn = "xdo_new"
         /\ events[1].args = <<NULL>>
         /\ IF events[1].ret = NULL
            THEN IsFailed(result, "xdo_new") /\ xdo.state = "none"
            ELSE result.tag = "Ok" /\ xdo = [state |-> "live", ptr |-> events[1].ret]
    /\ op.name = "drop(Xdo)" =>
         /\ Len(events) = 1
         /\ events[1].fn = "xdo_free"
         /\ events[1].args = <<xdo.ptr>>
    /\ \A i \in 1..Len(events) : events[i].fn = "xdo_free" => op.name = "drop(Xdo)"
    /\ xdo.state # "none" => xdo.ptr # NULL
    /\ xdoFrees = IF xdo.state = "dropped" THEN 1 ELSE 0

\* The handle was released after a borrowed operation had failed.
C4_Witness ==
    /\ op.name = "drop(Xdo)"
    /\ xdo.state = "dropped"
    /\ xdoFrees = 1
    /\ IsFailed(result, "get_active_modifiers")

\* C5: dropping a snapshot calls the C free exactly once on its array when
\* the array pointer is non-null and not at all when it is null; passing it
\* to set_active_modifiers or clear_active_modifiers frees nothing.
C5_SnapshotFreedOnDropOnly ==
    /\ \A s \in Slots :
         /\ mods[s].state = "live" =>
              /\ mods[s].frees = 0
              /\ mods[s].ptr # NULL => mods[s].ptr \in heap
         /\ mods[s].state = "dropped" =>
              mods[s].frees = IF mods[s].ptr = NULL THEN 0 ELSE 1
    /\ op.name = "drop(CharcodeMapList)" =>
         LET m == mods[op.args[1]]
         IN  IF m.ptr = NULL THEN events = <<>>
             ELSE /\ Len(events) = 1
                  /\ events[1].fn = "free"
                  /\ events[1].args = <<m.ptr>>
    /\ op.name \in {"set_active_modifiers", "clear_active_modifiers"} =>
         Calls(events, "free") = <<>>

\* A snapshot with a non-null array has been dropped.
C5_Witness ==
    \E s \in Slots :
        /\ op.name = "drop(CharcodeMapList)"
        /\ mods[s].state = "dropped"
        /\ mods[s].ptr # NULL
        /\ mods[s].frees = 1

\* The native function each status-returning operation calls, and its label.
NativeOf ==
    [get_active_window |-> "xdo_get_active_window",
     get_active_modifiers |-> "xdo_get_active_modifiers",
     get_name |-> "xdo_get_window_name",
     send_keysequence |-> "xdo_send_keysequence_window",
     set_active_modifiers |-> "xdo_set_active_modifiers",
     clear_active_modifiers |-> "xdo_clear_active_modifiers"]

LabelOf ==
    [get_active_window |-> "get_active_window",
     get_active_modifiers |-> "get_active_modifiers",
     get_name |-> "get_window_name",
     send_keysequence |-> "send_keysequence",
     set_active_modifiers |-> "set_active_modifiers",
     clear_active_modifiers |-> "clear_active_modifiers"]

\* C6: for each of the six status-returning operations a native return of 1
\* yields Failed with the operation's own label, a return of 0 never yields
\* Failed, and any other return panics instead of returning a result; the
\* six labels and "xdo_new" are pairwise distinct.
C6_StatusTranslation ==
    /\ Cardinality({LabelOf[o] : o \in DOMAIN LabelOf} \cup {"xdo_new"}) = 7
    /\ \A o \in DOMAIN NativeOf :
         (op.name = o /\ Called(NativeOf[o])) =>
            CASE events[1].ret = 1 -> IsFailed(result, LabelOf[o])
              [] events[1].ret = 0 -> result.tag # "Panic" /\ ~IsErrKind(result, "Failed")
              [] OTHER -> result.tag = "Panic" /\ pc = "panicked"

\* set_active_modifiers has reported the native failure sentinel.
C6_Witness ==
    /\ op.name = "set_active_modifiers"
    /\ events[1].ret = 1
    /\ IsFailed(result, "set_active_modifiers")

\* C7 (forwarding): set_active_modifiers and clear_active_modifiers make one
\* native call, with the handle, the window's identifier and exactly the
\* snapshot's stored pointer and length.
C7_Forwarded ==
    op.name \in {"set_active_modifiers", "clear_active_modifiers"} =>
        /\ Len(events) = 1
        /\ events[1].fn = NativeOf[op.name]
        /\ events[1].args =
             <<xdo.ptr, window.id, mods[op.args[1]].ptr, mods[op.args[1]].len>>
        /\ mods[op.args[1]].state = "live"

\* C7 (frame): the two operations leave every snapshot as it was, on success
\* and on failure, and a clear followed by a set of the same snapshot passes
\* the same pointer and length.
C7_Frame ==
    /\ op'.name \in {"set_active_modifiers", "clear_active_modifiers"} =>
         mods' = mods
    /\ ( /\ op.name = "clear_active_modifiers"
         /\ op'.name = "set_active_modifiers"
         /\ op'.args = op.args )
         => /\ events'[1].args[3] = events[1].args[3]
            /\ events'[1].args[4] = events[1].args[4]

\* C7: set_active_modifiers and clear_active_modifiers forward the snapshot's
\* pointer and length with the window identifier and neither consume nor
\* change the snapshot, so a clear and then a set see the same pair.
C7_SnapshotForwardedUnchanged == []C7_Forwarded /\ [][C7_Frame]_vars

\* A failed set_active_modifiers left a snapshot with an array live.
C7_Witness ==
    /\ op.name = "set_active_modifiers"
    /\ result.tag = "Err"
    /\ mods[op.args[1]].state = "live"
    /\ mods[op.args[1]].ptr # NULL
    /\ mods[op.args[1]].len > 0

\* The Utf8Error values and the NulError values of the model's inputs.
Utf8Errors ==
    {to_str(CStrBytes(b)).val : b \in {c \in NameBuffers : to_str(CStrBytes(c)).tag = "Err"}}

NulErrors ==
    {CString_new(q).val : q \in {r \in KeySequences : CString_new(r).tag = "Err"}}

\* C8: cause returns the wrapped error for Utf8 and NullByteInString and
\* nothing for Failed; the promotions wrap a UTF-8 error in Utf8 and a NUL
\* error in NullByteInString, so cause(from(e)) = e; and the errors the
\* operations return are these promotions of the underlying errors.
C8_CauseOfPromotion ==
    /\ \A e \in Utf8Errors :
         /\ FromUtf8Error(e).kind = "Utf8"
         /\ cause(FromUtf8Error(e)).some
         /\ cause(FromUtf8Error(e)).val = e
    /\ \A e \in NulErrors :
         /\ FromNulError(e).kind = "NullByteInString"
         /\ cause(FromNulError(e)).some
         /\ cause(FromNulError(e)).val = e
    /\ \A o \in DOMAIN LabelOf : ~cause(Failed(LabelOf[o])).some
    /\ IsErrKind(result, "Failed") => ~cause(result.val).some
    /\ (op.name = "get_name" /\ result.tag = "Err" /\ events[1].ret = XDO_SUCCESS) =>
         /\ result.val.kind = "Utf8"
         /\ cause(result.val).some
         /\ cause(result.val).val = to_str(CStrBytes(events[1].out[2])).val
    /\ (op.name = "send_keysequence" /\ result.tag = "Err" /\ events = <<>>) =>
         /\ result.val.kind = "NullByteInString"
         /\ cause(result.val).some
         /\ cause(result.val).val = CString_new(op.args[1]).val

\* send_keysequence has returned the promotion of a NUL error.
C8_Witness ==
    /\ op.name = "send_keysequence"
    /\ IsErrKind(result, "NullByteInString")
    /\ result.val.val.nul_position = 3

\* C10: when the native get_active_modifiers returns the failure sentinel the
\* result is Failed("get_active_modifiers"), and the array pointer the native
\* call wrote is freed exactly once if non-null and not at all if null.
C10_FailedSnapshotReleased ==
    (op.name = "get_active_modifiers" /\ events[1].ret = XDO_ERROR) =>
        LET p == events[1].out[1]
        IN  /\ IsFailed(result, "get_active_modifiers")
            /\ \A s \in Slots : mods[s].state = "live" => mods[s].ptr # p \/ p = NULL
            /\ IF p = NULL THEN Len(events) = 1
               ELSE /\ Len(events) = 2
                    /\ events[2].fn = "free"
                    /\ events[2].args = <<p>>
                    /\ p \notin heap

\* A failing native call had written a non-null array, which was freed.
C10_Witness ==
    /\ op.name = "get_active_modifiers"
    /\ events[1].ret = XDO_ERROR
    /\ events[1].out[1] # NULL
    /\ Len(Calls(events, "free")) = 1

=============================================================================
